---- MODULE Spec2Model ----
(***************************************************************************)
(* A model of the cold-outreach backend (src/backend): the campaign        *)
(* orchestrator of app.py (launch_campaign, run_campaign_async), the       *)
(* multi-provider dispatcher EmailService.send_email, the message          *)
(* generator AIService.generate_personalized_paragraph, the contact        *)
(* classifier EmailFilter.filter_emails and the people search              *)
(* LinkedInService.search_people_by_emails.                                *)
(*                                                                         *)
(* Each component has its own specification over the shared variables:     *)
(*   Spec / FairSpec  the orchestrator (HTTP handlers and campaign threads)*)
(*   SendSpec         one call of send_email                               *)
(*   AISpec           calls of generate_personalized_paragraph             *)
(*   FilterSpec       one call of filter_emails                            *)
(*   SearchSpec       one call of search_people_by_emails                  *)
(***************************************************************************)
EXTENDS Integers, Sequences, FiniteSets, TLC

\* ------------------------------------------------------------------ bounds
\* POST /api/launch requests in one behaviour.
MaxLaunch == 2
\* Contacts find_emails may return.
MaxFound == 2

VARIABLES
    profile,            \* which client traffic is modelled (see LaunchBodies)
    campaign_counter,   \* app.py:27
    campaign_results,   \* app.py:26
    req,                \* the launch_campaign handler of each request
    thr,                \* the run_campaign_async thread of each request
    mail,               \* EmailService and the send_email call in progress
    ai,                 \* AIService and its callers
    flt,                \* EmailFilter and the filter_emails call in progress
    li,                 \* LinkedInService and the search_people_by_emails call
    scraper,            \* app.py:23  the shared EmailScraper and its callers
    conn,               \* the search_and_connect call in progress
    ext                 \* the extract_name_from_email call in progress

appVars == <<profile, campaign_counter, campaign_results, req, thr>>

\* What the actions of each component leave alone.
services == <<mail, ai, flt, li, scraper, conn, ext>>
notMail == <<appVars, ai, flt, li, scraper, conn, ext>>
notAI == <<appVars, mail, flt, li, scraper, conn, ext>>
notFilter == <<appVars, mail, ai, li, scraper, conn, ext>>
notSearch ==
    <<profile, campaign_counter, req, mail, ai, flt, scraper, conn, ext>>
notBrowsing == <<appVars, mail, ai, flt, li>>

vars ==
    <<profile, campaign_counter, campaign_results, req, thr, mail, ai, flt,
      li, scraper, conn, ext>>

Min(a, b) == IF a <= b THEN a ELSE b
Max(a, b) == IF a >= b THEN a ELSE b

Requests == 1..MaxLaunch

\* ------------------------------------------------------- request bodies
\* A domain that is no string but a JSON number: it has no str methods.
NumberDomain == <<"(number)">>

\* A domain string, as the sequence of its pieces: scheme, "www.", labels,
\* "." and "/". <<>> is the empty (or missing) domain.
Domains ==
    { <<>>,
      <<"acme", ".", "com">>,
      <<"https://", "www.", "acme", ".", "com", "/", "jobs">>,
      <<"localhost">>,
      <<"http://", "www.", "com">>,
      NumberDomain }

\* The pieces of s that are not in drop, in order: str.replace(piece, '').
RECURSIVE Without(_, _)
Without(s, drop) ==
    IF s = <<>> THEN <<>>
    ELSE IF Head(s) \in drop THEN Without(Tail(s), drop)
    ELSE <<Head(s)>> \o Without(Tail(s), drop)

\* The pieces of s before its first "/": s.split('/')[0].
RECURSIVE BeforeSlash(_)
BeforeSlash(s) ==
    IF s = <<>> \/ Head(s) = "/" THEN <<>>
    ELSE <<Head(s)>> \o BeforeSlash(Tail(s))

\* '.' in piece: the pieces that hold a dot.
HasDot(piece) == piece \in {".", "www."}

\* EmailScraper.clean_domain (email_scraper.py:428-437): the cleaned domain,
\* or None (<<>> here, falsy like None) when it holds no '.'.
\* The slip of leaving out .replace('www.', '').
clean_domain_keeps_www(d) ==
    LET domain == BeforeSlash(Without(d, {"https://", "http://"}))
    IN  IF \A k \in 1..Len(domain) : ~HasDot(domain[k]) THEN <<>> ELSE domain

clean_domain(d) ==
    LET domain == BeforeSlash(Without(d, {"https://", "http://", "www."}))
    IN  IF \A k \in 1..Len(domain) : ~HasDot(domain[k]) THEN <<>> ELSE domain

DefaultTarget == 5
\* A target_email_count that is no integer (a JSON string or float): slicing
\* with it raises TypeError.
NotAnInteger == -99
Targets == {-1, 0, 1, DefaultTarget, NotAnInteger}

\* request.json when the request carries no body (None); also the value of
\* a thread's campaign_data before and after its run.
NoBody ==
    [present |-> FALSE, domain |-> <<>>, email_enabled |-> FALSE,
     linkedin_enabled |-> FALSE, target_email_count |-> 0]
Bodies ==
    [present : {TRUE}, domain : Domains, email_enabled : BOOLEAN,
     linkedin_enabled : BOOLEAN, target_email_count : Targets]
    \cup {NoBody}

\* launch_campaign's validation (app.py:179-183): TRUE when accepted.
\* The slip of checking the domain only.
ValidateDomainOnly(b) ==
    /\ b.present
    /\ b.domain # <<>>

Validate(b) ==
    /\ b.present
    /\ b.domain # <<>>
    /\ (b.email_enabled \/ b.linkedin_enabled)

\* The bodies clients post. Under "concurrent" traffic up to MaxLaunch
\* requests arrive and race for campaign_counter and campaign_results; their
\* bodies are rejected, or start a campaign that ends at the domain check of
\* app.py:60. Under "single" traffic one request arrives, with any body.
LaunchBodies(p) ==
    IF p = "single" THEN Bodies
    ELSE {b \in Bodies : /\ b.present
                         /\ b.target_email_count = DefaultTarget
                         /\ ~b.email_enabled
                         /\ b.linkedin_enabled
                         /\ b.domain \in {<<>>, <<"localhost">>}}
LaunchLimit(p) == IF p = "single" THEN 1 ELSE MaxLaunch

\* ------------------------------------------------------------- records
NoKey == -1
NewResult(id) ==
    [id |-> id, status |-> "running", emails_found |-> 0, emails_sent |-> 0,
     linkedin_sent |-> 0, errors |-> <<>>,
     linkedin_people_found |-> NoKey, linkedin_connections_sent |-> NoKey]

\* dict.get(key, 0) on a key the record may lack.
Get0(v) == IF v = NoKey THEN 0 ELSE v

\* A request: where its handler is, the HTTP status and campaign_id of its
\* response, and the body of a rejected request.
IdleReq == [pc |-> "new", campaign_id |-> 0, status |-> 0, body |-> NoBody]

\* A campaign thread: its locals, and what it did so far (calls: the service
\* methods it called; email_raised: an exception was raised inside the email
\* stage; li_sent: the connection requests its LinkedIn search sent).
IdleThread ==
    [pc |-> "none", campaign_id |-> 0, tmp |-> 0, ridx |-> 0, data |-> NoBody,
     emails_bound |-> FALSE, emails |-> 0, i |-> 0, emails_sent |-> 0,
     send_log |-> <<>>, li_called |-> FALSE, calls |-> {},
     email_raised |-> FALSE, li_sent |-> 0]

\* EmailService before any send_email call (no call is modelled under Spec).
MailIdle ==
    [email_providers |-> <<>>, pc |-> "idle", i |-> 0, attempts |-> <<>>,
     connections |-> 0, result |-> "none"]

\* The module state of app.py once imported: no campaign, counter 1.
AppInit(p) ==
    /\ profile = p
    /\ campaign_counter = 1
    /\ campaign_results = <<>>
    /\ req = [r \in Requests |-> IdleReq]
    /\ thr = [r \in Requests |-> IdleThread]

\* ai_service.py:11-14  the API keys AIService reads.
NumKeys == 2
\* Threads calling generate_personalized_paragraph on the shared AIService.
MaxCallers == 2
Callers == 1..MaxCallers

NoText == [lead |-> 0, core |-> 0, trail |-> 0, name |-> FALSE]
IdleCaller ==
    [pc |-> "idle", resume_empty |-> FALSE, job_empty |-> FALSE,
     tried |-> <<>>, tmp |-> 0, good_seen |-> FALSE,
     passed |-> NoText, ret |-> [kind |-> "none", text |-> NoText]]

\* ai_service.py:15-16  AIService with n initialised models.
AIWith(n) ==
    [models |-> n, current_key_index |-> 0,
     call |-> [c \in Callers |-> IdleCaller]]

\* EmailFilter with (TRUE) or without (FALSE) a model, about to filter emails.
FilterWith(model, emails) ==
    [model |-> model, emails |-> emails, pc |-> "idle", path |-> "none",
     real_people |-> <<>>, support_emails |-> <<>>]

\* LinkedInService with no search_people_by_emails call in progress.
\* people_found is kept by its number of entries and of entries with
\* connected = true; owner is the campaign thread that called (0: none).
SearchIdle ==
    [pc |-> "idle", owner |-> 0, n |-> 0, max_connections |-> 0, i |-> 0,
     examined |-> 0, connections_sent |-> 0,
     people_found |-> [entries |-> 0, connected |-> 0]]

\* Campaigns that call find_emails on the shared scraper in one behaviour.
MaxScrapers == 2

\* email_scraper.py:15-18  EmailScraper(): self.driver = None (here 0). A
\* browser session is named after the caller whose start_browser opened it.
\* Each caller's used, quit and replaced record the sessions its find_emails
\* drove, quit, and dropped from self.driver while they were open.
ScraperIdle ==
    [driver |-> 0,
     sessions |-> [s \in 1..MaxScrapers |-> "none"],
     call |-> [c \in 1..MaxScrapers |->
                 [pc |-> "idle", used |-> {}, quit |-> {}, replaced |-> {},
                  ret |-> "none"]]]

\* linkedin_service.py:823  no search_and_connect call
ConnectIdle ==
    [pc |-> "idle", person_name |-> <<>>, results |-> <<>>, k |-> 0,
     clicked |-> <<>>, attempted |-> <<>>, ret |-> [kind |-> "none"]]

\* linkedin_service.py:28  no extract_name_from_email call
ExtractIdle ==
    [pc |-> "idle", email |-> [kind |-> "str", text |-> <<>>],
     ret |-> [kind |-> "none"], skipped |-> FALSE]

\* The components the orchestrator's specification leaves idle.
BrowsingIdle ==
    /\ scraper = ScraperIdle
    /\ conn = ConnectIdle
    /\ ext = ExtractIdle

Init ==
    /\ \E p \in {"concurrent", "single"} : AppInit(p)
    /\ mail = MailIdle
    /\ ai = AIWith(0)
    /\ flt = FilterWith(FALSE, <<>>)
    /\ li = SearchIdle
    /\ BrowsingIdle

\* ------------------------------------------------------ launch_campaign
\* app.py:176-188: validation, then Thread(target=run_campaign_async).start()
Launch(r) ==
    /\ req[r].pc = "new"
    /\ r <= LaunchLimit(profile)
    /\ \E b \in LaunchBodies(profile) :
         IF Validate(b)
         THEN /\ req' = [req EXCEPT ![r].pc = "started"]
              /\ thr' = [thr EXCEPT ![r] = [IdleThread EXCEPT !.pc = "read_id",
                                                              !.data = b]]
         ELSE /\ req' = [req EXCEPT ![r].pc = "rejected",
                                     ![r].status = 400,
                                     ![r].body = b]
              /\ thr' = thr
    /\ UNCHANGED <<services, profile, campaign_counter, campaign_results>>

\* app.py:190-194: the response carries campaign_counter - 1
Respond(r) ==
    /\ req[r].pc = "started"
    /\ req' = [req EXCEPT ![r].pc = "responded",
                          ![r].status = 200,
                          ![r].campaign_id = campaign_counter - 1]
    /\ UNCHANGED <<services, profile, campaign_counter, campaign_results, thr>>

\* --------------------------------------------------- run_campaign_async
\* app.py:33  campaign_id = campaign_counter
ReadId(r) ==
    /\ thr[r].pc = "read_id"
    /\ thr' = [thr EXCEPT ![r].campaign_id = campaign_counter,
                          ![r].pc = "read_ctr"]
    /\ UNCHANGED <<services, profile, campaign_counter, campaign_results, req>>

\* app.py:34  campaign_counter += 1, the load of the global
ReadCounter(r) ==
    /\ thr[r].pc = "read_ctr"
    /\ thr' = [thr EXCEPT ![r].tmp = campaign_counter, ![r].pc = "write_ctr"]
    /\ UNCHANGED <<services, profile, campaign_counter, campaign_results, req>>

\* app.py:34  campaign_counter += 1, the store of the global
WriteCounter(r) ==
    /\ thr[r].pc = "write_ctr"
    /\ campaign_counter' = thr[r].tmp + 1
    /\ thr' = [thr EXCEPT ![r].tmp = 0, ![r].pc = "append"]
    /\ UNCHANGED <<services, profile, campaign_results, req>>

\* app.py:36-47  result = {...}; campaign_results.append(result)
\* The slip "campaign_results = [result]" for "campaign_results.append(result)".
AppendedResultsRebound(results, id) == <<NewResult(id)>>

AppendedResults(results, id) == Append(results, NewResult(id))

AppendResult(r) ==
    /\ thr[r].pc = "append"
    /\ campaign_results' = AppendedResults(campaign_results, thr[r].campaign_id)
    /\ thr' = [thr EXCEPT ![r].ridx = Len(campaign_results'),
                          ![r].pc = "prepare"]
    /\ UNCHANGED <<services, profile, campaign_counter, req>>

\* The thread's own record, and the list with that record updated.
Result(r) == campaign_results[thr[r].ridx]
WithResult(r, rec) == [campaign_results EXCEPT ![thr[r].ridx] = rec]

\* What the thread keeps once run_campaign_async has returned.
Returned(t) ==
    [IdleThread EXCEPT !.pc = "done", !.campaign_id = t.campaign_id,
                       !.ridx = t.ridx, !.calls = t.calls]

\* app.py:61-62  the record of a campaign whose domain is invalid.
\* The slip of recording the error without the status.
InvalidDomainRecordKeepsStatus(rec) ==
    [rec EXCEPT !.errors = Append(@, "Invalid domain")]

InvalidDomainRecord(rec) ==
    [rec EXCEPT !.status = "failed", !.errors = Append(@, "Invalid domain")]

\* app.py:63  return
\* The slip of leaving out the return: the run goes on to the stages.
AfterInvalidDomainGoesOn(t) == [t EXCEPT !.pc = "email"]

AfterInvalidDomain(t) == Returned(t)

\* app.py:153-156  the record after an exception that no stage caught.
UncaughtRecord(rec) ==
    [rec EXCEPT !.status = "failed", !.errors = Append(@, "AttributeError")]

\* app.py:49-71  read the body, clean the domain, load the resume and
\* generate the paragraph (neither raises); an invalid domain ends the run.
\* On a domain that is no string clean_domain raises AttributeError
\* (email_scraper.py:430), caught at app.py:153.
Prepare(r) ==
    /\ thr[r].pc = "prepare"
    /\ IF thr[r].data.domain = NumberDomain
       THEN /\ campaign_results' = WithResult(r, UncaughtRecord(Result(r)))
            /\ thr' = [thr EXCEPT ![r] = Returned(thr[r])]
       ELSE IF clean_domain(thr[r].data.domain) # <<>>
       THEN /\ thr' = [thr EXCEPT
                 ![r].pc = "email",
                 ![r].calls = @ \cup {"load_resume",
                                      "generate_personalized_paragraph"}]
            /\ campaign_results' = campaign_results
       ELSE /\ campaign_results' = WithResult(r, InvalidDomainRecord(Result(r)))
            /\ thr' = [thr EXCEPT ![r] = AfterInvalidDomain(thr[r])]
    /\ UNCHANGED <<services, profile, campaign_counter, req>>

\* list[:k] keeps this many of n elements.
SliceLen(n, k) == IF k >= 0 THEN Min(n, k) ELSE Max(0, n + k)

\* app.py:74-84  email_enabled; emails = find_emails(...); emails_found
FindEmails(r) ==
    /\ thr[r].pc = "email"
    /\ IF thr[r].data.email_enabled
       THEN \E n \in 0..MaxFound :
              /\ campaign_results' =
                   WithResult(r, [Result(r) EXCEPT !.emails_found = n])
              /\ thr' = [thr EXCEPT ![r].emails_bound = TRUE,
                                    ![r].emails = n,
                                    ![r].i = 1,
                                    ![r].calls = @ \cup {"find_emails"},
                                    ![r].pc = IF n > 0 THEN "send"
                                              ELSE "linkedin"]
       ELSE /\ thr' = [thr EXCEPT ![r].pc = "linkedin"]
            /\ campaign_results' = campaign_results
    /\ UNCHANGED <<services, profile, campaign_counter, req>>

\* The methods class AIService defines (ai_service.py).
AIServiceMethods ==
    {"__init__", "get_predefined_templates",
     "generate_personalized_paragraph", "load_resume"}

\* ai_service.<name>(...) raises AttributeError unless the class defines it.
AIServiceHas(name) == name \in AIServiceMethods

\* app.py:109  result['emails_sent'] = emails_sent
\* The slip of storing the target for the count.
StoredTarget(t) == t.data.target_email_count

StoredEmailsSent(t) == t.emails_sent

\* app.py:87-116  one iteration of the send loop over
\* emails[:target_email_count], or its end (emails_sent is stored). A
\* target that is no integer makes the slice raise TypeError, caught at
\* app.py:114.
SendStep(r) ==
    /\ thr[r].pc = "send"
    /\ LET t == thr[r]
       IN  IF t.data.target_email_count = NotAnInteger
           THEN /\ campaign_results' =
                     WithResult(r, [Result(r) EXCEPT
                         !.errors = Append(@, "Email error")])
                /\ thr' = [thr EXCEPT ![r].email_raised = TRUE,
                                      ![r].pc = "linkedin"]
           ELSE IF t.i > SliceLen(t.emails, t.data.target_email_count)
           THEN /\ campaign_results' =
                     WithResult(r, [Result(r) EXCEPT
                         !.emails_sent = StoredEmailsSent(t)])
                /\ thr' = [thr EXCEPT ![r].pc = "linkedin"]
           ELSE IF ~AIServiceHas("generate_personalized_email")
           THEN \* AttributeError, caught at app.py:105: continue
                /\ thr' = [thr EXCEPT ![r].i = t.i + 1,
                                      ![r].email_raised = TRUE]
                /\ campaign_results' = campaign_results
           ELSE \E sent \in BOOLEAN :
                /\ thr' = [thr EXCEPT
                     ![r].i = t.i + 1,
                     ![r].send_log = Append(@, t.i),
                     ![r].calls = @ \cup {"send_email"},
                     ![r].emails_sent = IF sent THEN @ + 1 ELSE @]
                /\ campaign_results' = campaign_results
    /\ UNCHANGED <<services, profile, campaign_counter, req>>

\* linkedin_service.py:760-821  what search_people_by_emails can return for
\* n addresses: the number of people found and of connections sent.
ProcessLimit == 10
MaxConnections == 5
SearchOutcomes(n) ==
    {o \in [found : 0..Min(n, ProcessLimit), connected : 0..MaxConnections] :
        o.connected <= o.found}

\* app.py:119-140  the LinkedIn stage. Reading emails when the email stage
\* never assigned it raises UnboundLocalError, caught at app.py:138.
EmailsReadable(t) == t.emails_bound

LinkedInStage(r) ==
    /\ thr[r].pc = "linkedin"
    /\ LET t == thr[r]
       IN  IF ~t.data.linkedin_enabled
           THEN /\ thr' = [thr EXCEPT ![r].pc = "final"]
                /\ campaign_results' = campaign_results
           ELSE IF ~EmailsReadable(t)
           THEN /\ campaign_results' =
                     WithResult(r, [Result(r) EXCEPT
                         !.errors = Append(@, "LinkedIn error")])
                /\ thr' = [thr EXCEPT ![r].pc = "final"]
           ELSE IF SliceLen(t.emails, ProcessLimit) = 0
           THEN /\ thr' = [thr EXCEPT ![r].pc = "final"]
                /\ campaign_results' = campaign_results
           ELSE \E o \in SearchOutcomes(SliceLen(t.emails, ProcessLimit)) :
                /\ campaign_results' =
                     WithResult(r, [Result(r) EXCEPT
                         !.linkedin_people_found = o.found,
                         !.linkedin_connections_sent = o.connected])
                /\ thr' = [thr EXCEPT
                     ![r].li_called = TRUE,
                     ![r].li_sent = o.connected,
                     ![r].calls = @ \cup {"search_people_by_emails"},
                     ![r].pc = "final"]
    /\ UNCHANGED <<services, profile, campaign_counter, req>>

\* app.py:142-148  the final status
\* The slip of "and" for "or".
FinalStatusBoth(rec) ==
    IF rec.emails_sent > 0 /\ Get0(rec.linkedin_connections_sent) > 0
    THEN "completed" ELSE "failed"

FinalStatus(rec) ==
    IF rec.emails_sent > 0 \/ Get0(rec.linkedin_connections_sent) > 0
    THEN "completed" ELSE "failed"

Finalize(r) ==
    /\ thr[r].pc = "final"
    /\ campaign_results' =
         WithResult(r, [Result(r) EXCEPT !.status = FinalStatus(Result(r))])
    /\ thr' = [thr EXCEPT ![r] = Returned(thr[r])]
    /\ UNCHANGED <<services, profile, campaign_counter, req>>

ThreadStep(r) ==
    \/ ReadId(r)
    \/ ReadCounter(r)
    \/ WriteCounter(r)
    \/ AppendResult(r)
    \/ Prepare(r)
    \/ FindEmails(r)
    \/ SendStep(r)
    \/ LinkedInStage(r)
    \/ Finalize(r)

Next ==
    \E r \in Requests :
        \/ Launch(r)
        \/ Respond(r)
        \/ ThreadStep(r)

Spec == Init /\ [][Next]_vars

\* Threads are scheduled by the operating system: a campaign thread that can
\* take a step eventually takes it.
FairSpec == Spec /\ \A r \in Requests : WF_vars(ThreadStep(r))

\* =================================================================
\* LinkedInService.search_people_by_emails (SearchSpec)
\* =================================================================
\* Spec takes the LinkedIn stage in one step, by the outcomes of the search
\* (SearchOutcomes). SearchSpec runs the search address by address, called by
\* a campaign at its LinkedIn stage or directly, on lists that are longer
\* than the limits of the loop.

\* Addresses in the longest list handed to the search.
MaxList == 11

\* linkedin_service.py:783  "if connections_sent >= max_connections: break"
\* The slip of ">" for ">=".
LimitExceeded(connections_sent, max_connections) ==
    connections_sent > max_connections

LimitReached(connections_sent, max_connections) ==
    connections_sent >= max_connections

\* linkedin_service.py:760  search_people_by_emails(email_list, company_name,
\* max_connections) is called with n addresses by owner.
SearchCalled(owner, n, max_connections) ==
    [SearchIdle EXCEPT !.pc = "call", !.owner = owner, !.n = n,
                       !.max_connections = max_connections]

\* The max_connections of a direct call; the campaign passes MaxConnections.
SearchLimits == {0, 1, MaxConnections}

\* A campaign thread at app.py:119 whose email stage found n contacts and
\* had none to write to (target_email_count 0), and its record.
AtLinkedInStage(n) ==
    [IdleThread EXCEPT
        !.pc = "linkedin", !.campaign_id = 1, !.ridx = 1,
        !.data = [present |-> TRUE, domain |-> <<"acme", ".", "com">>,
                  email_enabled |-> TRUE, linkedin_enabled |-> TRUE,
                  target_email_count |-> 0],
        !.emails_bound = TRUE, !.emails = n, !.i = 1,
        !.calls = {"load_resume", "generate_personalized_paragraph",
                   "find_emails"}]

SearchInit ==
    /\ profile = "off"
    /\ mail = MailIdle
    /\ ai = AIWith(0)
    /\ flt = FilterWith(FALSE, <<>>)
    /\ \/ \E n \in 1..MaxList :
            /\ campaign_counter = 2
            /\ campaign_results = <<[NewResult(1) EXCEPT !.emails_found = n]>>
            /\ req = [r \in Requests |->
                        IF r = 1
                        THEN [IdleReq EXCEPT !.pc = "responded",
                                             !.status = 200,
                                             !.campaign_id = 1]
                        ELSE IdleReq]
            /\ thr = [r \in Requests |->
                        IF r = 1 THEN AtLinkedInStage(n) ELSE IdleThread]
            /\ li = SearchIdle
            /\ BrowsingIdle
       \/ \E n \in 0..MaxList, m \in SearchLimits :
            /\ campaign_counter = 1
            /\ campaign_results = <<>>
            /\ req = [r \in Requests |-> IdleReq]
            /\ thr = [r \in Requests |-> IdleThread]
            /\ li = SearchCalled(0, n, m)
            /\ BrowsingIdle

\* app.py:119-129  target_emails = emails[:10]; the call of the search
LinkedInCall(r) ==
    /\ thr[r].pc = "linkedin"
    /\ li.pc = "idle"
    /\ thr[r].data.linkedin_enabled
    /\ EmailsReadable(thr[r])
    /\ SliceLen(thr[r].emails, ProcessLimit) > 0
    /\ li' = SearchCalled(r, SliceLen(thr[r].emails, ProcessLimit),
                          MaxConnections)
    /\ thr' = [thr EXCEPT
         ![r].pc = "li_search",
         ![r].li_called = TRUE,
         ![r].calls = @ \cup {"search_people_by_emails"}]
    /\ UNCHANGED <<campaign_results, notSearch>>

\* linkedin_service.py:765-780  the browser does not start (return []), or
\* opening the site or the operator prompt raises (caught at
\* linkedin_service.py:812), or the loop begins.
SearchStart ==
    /\ li.pc = "call"
    /\ \E started \in {"no_browser", "raised", "ok"} :
         li' = IF started = "ok" THEN [li EXCEPT !.pc = "loop", !.i = 1]
               ELSE [li EXCEPT !.pc = "returned"]
    /\ UNCHANGED <<campaign_results, thr, notSearch>>

\* linkedin_service.py:782-810  one iteration of "for email in
\* email_list[:10]", its break, or its end. An address yields no name, no
\* search result, a person found, or a person found and a request sent.
SearchStep ==
    /\ li.pc = "loop"
    /\ IF \/ li.i > SliceLen(li.n, ProcessLimit)
          \/ LimitReached(li.connections_sent, li.max_connections)
       THEN li' = [li EXCEPT !.pc = "returned"]
       ELSE \E o \in {"no_name", "no_result", "found", "connected"} :
              li' = [li EXCEPT
                  !.i = @ + 1,
                  !.examined = @ + 1,
                  !.connections_sent = IF o = "connected" THEN @ + 1 ELSE @,
                  !.people_found =
                      IF o \in {"found", "connected"}
                      THEN [entries |-> @.entries + 1,
                            connected |-> @.connected
                                          + (IF o = "connected" THEN 1 ELSE 0)]
                      ELSE @]
    /\ UNCHANGED <<campaign_results, thr, notSearch>>

\* linkedin_service.py:821, app.py:131-132  the list is returned to the
\* campaign, which stores its length and its number of connected entries.
LinkedInReturn(r) ==
    /\ thr[r].pc = "li_search"
    /\ li.pc = "returned"
    /\ li.owner = r
    /\ campaign_results' =
         WithResult(r, [Result(r) EXCEPT
             !.linkedin_people_found = li.people_found.entries,
             !.linkedin_connections_sent = li.people_found.connected])
    /\ thr' = [thr EXCEPT ![r].li_sent = li.connections_sent,
                          ![r].pc = "final"]
    /\ li' = SearchIdle
    /\ UNCHANGED notSearch

SearchNext ==
    \/ SearchStart
    \/ SearchStep
    \/ \E r \in Requests :
          \/ LinkedInCall(r)
          \/ LinkedInReturn(r)
          \/ Finalize(r)

SearchSpec == SearchInit /\ [][SearchNext]_vars

\* =================================================================
\* EmailService.send_email (SendSpec)
\* =================================================================

\* email_service.py:12-37  the providers, in priority order.
AllProviders ==
    << [name |-> "Gmail", use_ssl |-> TRUE, account |-> "GMAIL"],
       [name |-> "Gmail_TLS", use_ssl |-> FALSE, account |-> "GMAIL"],
       [name |-> "Outlook", use_ssl |-> FALSE, account |-> "OUTLOOK"] >>

\* email_service.py:40-43  the providers whose account has both credentials.
ConfiguredProviders(accounts) ==
    SelectSeq(AllProviders, LAMBDA p : p.account \in accounts)

\* The exceptions an attempt can raise.
SmtpErrors ==
    {"SMTPAuthenticationError", "SMTPRecipientsRefused",
     "SMTPServerDisconnected", "OSError"}
\* What each smtplib call of an attempt can do: succeed ("ok"), or raise.
StepOutcomes(step) ==
    {"ok", "SMTPServerDisconnected", "OSError"} \cup
    (CASE step = "login" -> {"SMTPAuthenticationError"}
       [] step = "send_message" -> {"SMTPRecipientsRefused"}
       [] OTHER -> {})

\* email_service.py:143-151  the except clauses of the attempt; every
\* error of SmtpErrors is an Exception.
CaughtByNamedClausesOnly(e) ==
    e \in {"SMTPAuthenticationError", "SMTPRecipientsRefused",
           "SMTPServerDisconnected"}

Caught(e) ==
    \/ e \in {"SMTPAuthenticationError", "SMTPRecipientsRefused",
              "SMTPServerDisconnected"}
    \/ e \in SmtpErrors

SendInit ==
    /\ AppInit("off")
    /\ \E accounts \in SUBSET {"GMAIL", "OUTLOOK"} :
         mail = [MailIdle EXCEPT !.email_providers = ConfiguredProviders(accounts),
                                 !.pc = "call"]
    /\ ai = AIWith(0)
    /\ flt = FilterWith(FALSE, <<>>)
    /\ li = SearchIdle
    /\ BrowsingIdle

\* The attempt in progress, and its provider.
Attempt(m) == m.attempts[Len(m.attempts)]
Provider(m) == m.email_providers[m.i]

\* email_service.py:100-119  the loop moves to provider i (the message is
\* built), or ends: "All email providers failed", return False.
EnterProvider(m, i) ==
    IF i > Len(m.email_providers)
    THEN [m EXCEPT !.pc = "returned", !.result = "False", !.i = 0]
    ELSE [m EXCEPT !.pc = "connect", !.i = i,
                   !.attempts = Append(@, [provider |-> m.email_providers[i].name,
                                           outcome |-> "running",
                                           error |-> "none",
                                           handed |-> FALSE])]

\* email_service.py:143-153  a step raised e: the attempt has failed; the
\* error is printed and the next provider is tried.
Raised(m, e) ==
    LET failed == [m EXCEPT !.attempts[Len(m.attempts)].outcome = "failed",
                            !.attempts[Len(m.attempts)].error = e]
    IN  IF Caught(e) THEN EnterProvider(failed, m.i + 1)
        ELSE [failed EXCEPT !.pc = "raised", !.i = 0]

\* email_service.py:140-141  the attempt completed: return True.
SentContinues(m) ==
    EnterProvider([m EXCEPT !.attempts[Len(m.attempts)].outcome = "ok"], m.i + 1)

Sent(m) ==
    [m EXCEPT !.attempts[Len(m.attempts)].outcome = "ok",
              !.pc = "returned", !.result = "True", !.i = 0]

\* email_service.py:95-100
SendEmailCall ==
    /\ mail.pc = "call"
    /\ mail' = IF mail.email_providers = <<>>
               THEN [mail EXCEPT !.pc = "returned", !.result = "False"]
               ELSE EnterProvider(mail, 1)
    /\ UNCHANGED notMail

\* email_service.py:124-129  smtplib.SMTP_SSL(...) or smtplib.SMTP(...)
Connect ==
    /\ mail.pc = "connect"
    /\ \E e \in StepOutcomes("connect") :
         LET m == [mail EXCEPT !.connections = @ + 1]
         IN  mail' = IF e = "ok"
                     THEN [m EXCEPT !.pc = IF Provider(m).use_ssl THEN "login"
                                           ELSE "starttls"]
                     ELSE Raised(m, e)
    /\ UNCHANGED notMail

\* email_service.py:131  server.starttls()
StartTLS ==
    /\ mail.pc = "starttls"
    /\ \E e \in StepOutcomes("starttls") :
         mail' = IF e = "ok" THEN [mail EXCEPT !.pc = "login"]
                 ELSE Raised(mail, e)
    /\ UNCHANGED notMail

\* email_service.py:134  server.login(...)
Login ==
    /\ mail.pc = "login"
    /\ \E e \in StepOutcomes("login") :
         mail' = IF e = "ok" THEN [mail EXCEPT !.pc = "send_message"]
                 ELSE Raised(mail, e)
    /\ UNCHANGED notMail

\* email_service.py:137  server.send_message(msg): on success the server
\* has accepted the message for delivery.
SendMessage ==
    /\ mail.pc = "send_message"
    /\ \E e \in StepOutcomes("send_message") :
         mail' = IF e = "ok"
                 THEN [mail EXCEPT !.pc = "quit",
                                   !.attempts[Len(mail.attempts)].handed = TRUE]
                 ELSE Raised(mail, e)
    /\ UNCHANGED notMail

\* email_service.py:138-141  server.quit(); return True
Quit ==
    /\ mail.pc = "quit"
    /\ \E e \in StepOutcomes("quit") :
         mail' = IF e = "ok" THEN Sent(mail) ELSE Raised(mail, e)
    /\ UNCHANGED notMail

SendNext ==
    \/ SendEmailCall
    \/ Connect
    \/ StartTLS
    \/ Login
    \/ SendMessage
    \/ Quit

SendSpec == SendInit /\ [][SendNext]_vars

\* =================================================================
\* AIService.generate_personalized_paragraph (AISpec)
\* =================================================================

\* A text, by what the function looks at: its leading whitespace, the
\* length between, its trailing whitespace, and whether it contains
\* "Mantavya Mahajan".
TextLen(t) == t.lead + t.core + t.trail
Strip(t) == [t EXCEPT !.lead = 0, !.trail = 0]

\* ai_service.py:87  the length a generated email must exceed.
QualityMinLen == 200

\* ai_service.py:34-42  the predefined templates (their lengths).
Templates ==
    << [lead |-> 0, core |-> 770, trail |-> 0, name |-> TRUE],
       [lead |-> 0, core |-> 695, trail |-> 0, name |-> TRUE],
       [lead |-> 0, core |-> 645, trail |-> 0, name |-> TRUE],
       [lead |-> 0, core |-> 681, trail |-> 0, name |-> TRUE] >>

\* What model.generate_content(prompt) can do: raise, answer without text,
\* or answer with a text.
ResponseTexts ==
    { [lead |-> 1, core |-> 0, trail |-> 1, name |-> FALSE],
      [lead |-> 0, core |-> 50, trail |-> 0, name |-> TRUE],
      [lead |-> 0, core |-> QualityMinLen, trail |-> 1, name |-> TRUE],
      [lead |-> 0, core |-> QualityMinLen + 1, trail |-> 0, name |-> FALSE],
      [lead |-> 1, core |-> QualityMinLen + 1, trail |-> 1, name |-> TRUE] }
Responses ==
    {[kind |-> "raise", text |-> NoText], [kind |-> "none", text |-> NoText]}
    \cup {[kind |-> "text", text |-> t] : t \in ResponseTexts}

\* ai_service.py:85  "if response and response.text"
HasText(resp) == resp.kind = "text" /\ TextLen(resp.text) > 0

\* ai_service.py:87  the quality check, on the stripped text.
QualityAtLeast(generated_email) ==
    TextLen(generated_email) >= QualityMinLen /\ generated_email.name

Quality(generated_email) ==
    TextLen(generated_email) > QualityMinLen /\ generated_email.name

\* A response that returned a text of the required quality: more than
\* QualityMinLen characters once stripped, containing the name.
GoodResponse(resp) ==
    /\ resp.kind = "text"
    /\ resp.text.core > QualityMinLen
    /\ resp.text.name

AIInit ==
    /\ AppInit("off")
    /\ mail = MailIdle
    /\ flt = FilterWith(FALSE, <<>>)
    /\ li = SearchIdle
    /\ BrowsingIdle
    /\ \E n \in 0..NumKeys : ai = AIWith(n)

\* ai_service.py:43  return random.choice(templates)
ReturnTemplate(c, k) ==
    [c EXCEPT !.pc = "returned", !.tmp = 0,
              !.ret = [kind |-> "template", text |-> Templates[k]]]

\* ai_service.py:45-52  the call and its two guards
GenerateCall(c) ==
    /\ ai.call[c].pc = "idle"
    /\ \E re, je \in BOOLEAN :
         LET cl == [ai.call[c] EXCEPT !.resume_empty = re, !.job_empty = je]
         IN  IF ai.models = 0 \/ re \/ je
             THEN \E k \in 1..Len(Templates) :
                    ai' = [ai EXCEPT !.call[c] = ReturnTemplate(cl, k)]
             ELSE ai' = [ai EXCEPT !.call[c] = [cl EXCEPT !.pc = "attempt"]]
    /\ UNCHANGED notAI

\* ai_service.py:79-92, 98-99  one iteration of "for attempt in
\* range(len(self.models))": the request to the model at current_key_index
\* and the check of its answer; or the end of the loop.
TryKey(c) ==
    /\ ai.call[c].pc = "attempt"
    /\ LET cl == ai.call[c]
       IN  IF Len(cl.tried) >= ai.models
           THEN \E k \in 1..Len(Templates) :
                  ai' = [ai EXCEPT !.call[c] = ReturnTemplate(cl, k)]
           ELSE \E resp \in Responses :
                  LET tr == [cl EXCEPT
                                 !.tried = Append(@, ai.current_key_index),
                                 !.good_seen = @ \/ GoodResponse(resp)]
                  IN  IF /\ resp.kind # "raise"
                         /\ HasText(resp)
                         /\ Quality(Strip(resp.text))
                      THEN ai' = [ai EXCEPT !.call[c] =
                                    [tr EXCEPT
                                       !.pc = "returned",
                                       !.passed = resp.text,
                                       !.ret = [kind |-> "ai",
                                                text |-> Strip(resp.text)]]]
                      ELSE ai' = [ai EXCEPT !.call[c] =
                                    [tr EXCEPT !.pc = "switch_read"]]
    /\ UNCHANGED notAI

\* ai_service.py:95  the load of self.current_key_index
SwitchRead(c) ==
    /\ ai.call[c].pc = "switch_read"
    /\ ai' = [ai EXCEPT !.call[c].tmp = ai.current_key_index,
                        !.call[c].pc = "switch_write"]
    /\ UNCHANGED notAI

\* ai_service.py:95  the store of (index + 1) % len(self.models)
SwitchWrite(c) ==
    /\ ai.call[c].pc = "switch_write"
    /\ ai' = [ai EXCEPT !.current_key_index = (ai.call[c].tmp + 1) % ai.models,
                        !.call[c].tmp = 0,
                        !.call[c].pc = "attempt"]
    /\ UNCHANGED notAI

AINext ==
    \E c \in Callers :
        \/ GenerateCall(c)
        \/ TryKey(c)
        \/ SwitchRead(c)
        \/ SwitchWrite(c)

AISpec == AIInit /\ [][AINext]_vars

\* =================================================================
\* EmailFilter.filter_emails (FilterSpec)
\* =================================================================

\* Strings are sequences of one-character strings.
UpperLetters ==
    <<"A", "B", "C", "D", "E", "F", "G", "H", "I", "J", "K", "L", "M", "N", "O", "P", "Q", "R", "S", "T", "U", "V", "W", "X", "Y", "Z">>
LowerLetters ==
    <<"a", "b", "c", "d", "e", "f", "g", "h", "i", "j", "k", "l", "m", "n", "o", "p", "q", "r", "s", "t", "u", "v", "w", "x", "y", "z">>
Digits == {"0", "1", "2", "3", "4", "5", "6", "7", "8", "9"}

\* str.lower and str.upper, character by character.
LowerChar(c) ==
    IF \E k \in 1..Len(UpperLetters) : UpperLetters[k] = c
    THEN LowerLetters[CHOOSE k \in 1..Len(UpperLetters) : UpperLetters[k] = c]
    ELSE c
UpperChar(c) ==
    IF \E k \in 1..Len(LowerLetters) : LowerLetters[k] = c
    THEN UpperLetters[CHOOSE k \in 1..Len(LowerLetters) : LowerLetters[k] = c]
    ELSE c
Lower(str) == [k \in 1..Len(str) |-> LowerChar(str[k])]

\* str.capitalize: first character upper-cased, the rest lower-cased.
Capitalize(str) ==
    [k \in 1..Len(str) |-> IF k = 1 THEN UpperChar(str[k]) ELSE LowerChar(str[k])]

Contains(str, c) == \E k \in 1..Len(str) : str[k] = c
StartsWith(str, prefix) ==
    /\ Len(prefix) <= Len(str)
    /\ SubSeq(str, 1, Len(prefix)) = prefix
EndsWith(str, suffix) ==
    /\ Len(suffix) <= Len(str)
    /\ SubSeq(str, Len(str) - Len(suffix) + 1, Len(str)) = suffix

\* str.split(sep): the pieces between the occurrences of the character sep.
RECURSIVE Split(_, _)
Split(str, sep) ==
    IF ~Contains(str, sep) THEN <<str>>
    ELSE LET k == CHOOSE j \in 1..Len(str) :
                      str[j] = sep /\ \A h \in 1..(j - 1) : str[h] # sep
         IN  <<SubSeq(str, 1, k - 1)>> \o Split(SubSeq(str, k + 1, Len(str)), sep)

\* The addresses the scraper hands over: a local part, "@" and a domain.
MailDomain == <<"@", "x", ".", "c", "o">>
SampleLocals ==
    { <<"h", "r">>,
      <<"I", "T">>,
      <<"b", "o", "b">>,
      <<"a", "_", "b">>,
      <<"i", "n", "f", "o", "s">>,
      <<"2", "0", "2", "4">>,
      <<"j", "o", "h", "n", ".", "s", "m", "i", "t", "h">> }
Addresses == {local \o MailDomain : local \in SampleLocals}
\* An address that is not among the scraped ones.
Invented == <<"c", "e", "o">> \o MailDomain

\* Lists of emails the scraper can hand to filter_emails.
MaxEmails == 2
EmailLists == UNION {[1..n -> Addresses] : n \in 0..MaxEmails}

\* email_filter.py:168-177  support_patterns, '^(word|...)@': the words.
support_patterns ==
    {<<"s", "u", "p", "p", "o", "r", "t">>,
      <<"h", "e", "l", "p">>,
      <<"i", "n", "f", "o">>,
      <<"c", "o", "n", "t", "a", "c", "t">>,
      <<"c", "u", "s", "t", "o", "m", "e", "r">>,
      <<"s", "e", "r", "v", "i", "c", "e">>,
      <<"h", "r">>,
      <<"c", "a", "r", "e", "e", "r", "s">>,
      <<"j", "o", "b", "s">>,
      <<"r", "e", "c", "r", "u", "i", "t", "i", "n", "g">>,
      <<"t", "a", "l", "e", "n", "t">>,
      <<"s", "a", "l", "e", "s">>,
      <<"m", "a", "r", "k", "e", "t", "i", "n", "g">>,
      <<"a", "d", "m", "i", "n">>,
      <<"o", "f", "f", "i", "c", "e">>,
      <<"n", "o", "r", "e", "p", "l", "y">>,
      <<"d", "o", "n", "o", "t", "r", "e", "p", "l", "y">>,
      <<"n", "o", "-", "r", "e", "p", "l", "y">>,
      <<"a", "u", "t", "o", "m", "a", "t", "e", "d">>,
      <<"w", "e", "b", "m", "a", "s", "t", "e", "r">>,
      <<"p", "o", "s", "t", "m", "a", "s", "t", "e", "r">>,
      <<"m", "a", "i", "l">>,
      <<"e", "m", "a", "i", "l">>,
      <<"b", "i", "l", "l", "i", "n", "g">>,
      <<"a", "c", "c", "o", "u", "n", "t", "i", "n", "g">>,
      <<"f", "i", "n", "a", "n", "c", "e">>,
      <<"l", "e", "g", "a", "l">>,
      <<"c", "o", "m", "p", "l", "i", "a", "n", "c", "e">>,
      <<"s", "e", "c", "u", "r", "i", "t", "y">>,
      <<"i", "t">>,
      <<"t", "e", "c", "h">>,
      <<"s", "y", "s", "t", "e", "m">>,
      <<"s", "e", "r", "v", "e", "r">> }
\* re.match(pattern, email_lower) for some pattern of support_patterns.
is_support(email_lower) ==
    \E word \in support_patterns : StartsWith(email_lower, word \o <<"@">>)

\* email_filter.py:248-271  _split_concatenated_name
split_concatenated_name(str) ==
    LET name == Lower(str)
    IN  IF EndsWith(name, <<"m", "s">>)
        THEN <<SubSeq(name, 1, Len(name) - 2), <<"m", "s">>>>
        ELSE IF EndsWith(name, <<"j", "r">>)
        THEN <<SubSeq(name, 1, Len(name) - 2), <<"j", "r">>>>
        ELSE IF Len(name) > 6
        THEN <<SubSeq(name, 1, Len(name) \div 2),
               SubSeq(name, Len(name) \div 2 + 1, Len(name))>>
        ELSE <<name>>

\* re.sub(r'\d+$', '', s): s without its trailing digits.
RECURSIVE StripTrailingDigits(_)
StripTrailingDigits(str) ==
    IF str # <<>> /\ str[Len(str)] \in Digits
    THEN StripTrailingDigits(SubSeq(str, 1, Len(str) - 1))
    ELSE str

\* ' '.join(words)
RECURSIVE JoinWords(_)
JoinWords(words) ==
    IF words = <<>> THEN <<>>
    ELSE IF Len(words) = 1 THEN Head(words)
    ELSE Head(words) \o <<" ">> \o JoinWords(Tail(words))

\* email_filter.py:220-246  _extract_name_from_email
extract_name_from_email(email) ==
    LET local_part == StripTrailingDigits(Split(email, "@")[1])
        name_parts == IF Contains(local_part, ".") THEN Split(local_part, ".")
                      ELSE IF Contains(local_part, "_")
                      THEN Split(local_part, "_")
                      ELSE split_concatenated_name(local_part)
        kept == SelectSeq(name_parts, LAMBDA word : Len(word) > 1)
        name == JoinWords([k \in 1..Len(kept) |-> Capitalize(kept[k])])
    IN  IF name # <<>> THEN name ELSE Capitalize(local_part)

\* email_filter.py:192-199  has_name_pattern
\* The slip of ">= 3" for "> 3".
has_name_pattern_from_3(local_part) ==
    \/ Contains(local_part, ".")
    \/ Contains(local_part, "_")
    \/ Len(local_part) >= 3

has_name_pattern(local_part) ==
    \/ Contains(local_part, ".")
    \/ Contains(local_part, "_")
    \/ Len(local_part) > 3

\* email_filter.py:182-206  the bucket of one email: TRUE for real_people.
IsRealPerson(email) ==
    LET email_lower == Lower(email)
    IN  /\ ~is_support(email_lower)
        /\ has_name_pattern(Split(email_lower, "@")[1])

\* email_filter.py:163-218  _fallback_filter: the two buckets, in input order.
fallback_real_people(emails) ==
    LET kept == SelectSeq(emails, IsRealPerson)
    IN  [k \in 1..Len(kept) |->
            [email |-> kept[k], name |-> extract_name_from_email(kept[k])]]
fallback_support_emails(emails) ==
    SelectSeq(emails, LAMBDA email : ~IsRealPerson(email))

\* An entry of real_people that carries no name (a plain address).
Plain(emails) == [k \in 1..Len(emails) |-> [email |-> emails[k], name |-> <<>>]]

\* What the model's JSON answer does with each email of the prompt, and
\* whether it adds an address of its own: the answer is not checked against
\* the prompt (email_filter.py:119-147).
Placements == {"real", "support", "both", "neither"}
Answers(emails) ==
    [place : [1..Len(emails) -> Placements], invents : BOOLEAN]
AnswerReal(emails, a) ==
    LET idx == SelectSeq([k \in 1..Len(emails) |-> k],
                         LAMBDA k : a.place[k] \in {"real", "both"})
    IN  Plain([k \in 1..Len(idx) |-> emails[idx[k]]])
        \o (IF a.invents THEN Plain(<<Invented>>) ELSE <<>>)
AnswerSupport(emails, a) ==
    LET idx == SelectSeq([k \in 1..Len(emails) |-> k],
                         LAMBDA k : a.place[k] \in {"support", "both"})
    IN  [k \in 1..Len(idx) |-> emails[idx[k]]]

FilterInit ==
    /\ AppInit("off")
    /\ mail = MailIdle
    /\ ai = AIWith(0)
    /\ li = SearchIdle
    /\ BrowsingIdle
    /\ \E model \in BOOLEAN, emails \in EmailLists :
         flt = [FilterWith(model, emails) EXCEPT !.pc = "call"]

FilterReturn(f, path, real_people, support_emails) ==
    [f EXCEPT !.pc = "returned", !.path = path,
              !.real_people = real_people, !.support_emails = support_emails]

\* email_filter.py:43-58  the guards of filter_emails
FilterEmailsCall ==
    /\ flt.pc = "call"
    /\ flt' = IF ~flt.model
              THEN FilterReturn(flt, "no_model", Plain(flt.emails), <<>>)
              ELSE IF flt.emails = <<>>
              THEN FilterReturn(flt, "no_emails", <<>>, <<>>)
              ELSE [flt EXCEPT !.pc = "generate"]
    /\ UNCHANGED notFilter

\* email_filter.py:60-161  the request to the model and what is made of its
\* answer: an exception or an answer that cannot be parsed falls back to the
\* rules; a parsed answer is returned as it is.
FilterClassify ==
    /\ flt.pc = "generate"
    /\ \/ \E failure \in {"raise", "unparseable"} :
            flt' = FilterReturn(flt, "fallback",
                                fallback_real_people(flt.emails),
                                fallback_support_emails(flt.emails))
       \/ \E a \in Answers(flt.emails) :
            flt' = FilterReturn(flt, "llm", AnswerReal(flt.emails, a),
                                AnswerSupport(flt.emails, a))
    /\ UNCHANGED notFilter

FilterNext ==
    \/ FilterEmailsCall
    \/ FilterClassify

FilterSpec == FilterInit /\ [][FilterNext]_vars

\* =================================================================
\* EmailScraper.find_emails on the shared scraper (ScrapeSpec)
\* =================================================================
\* app.py:23 creates one EmailScraper; every campaign thread (app.py:79)
\* calls find_emails on it. Its self.driver is read anew by every statement
\* that drives the browser, so a call is run phase by phase.

\* The session self.driver refers to is an open browser.
Open(d) == d # 0 /\ scraper.sessions[d] = "open"

\* email_scraper.py:444,449,456,476,482  find_emails returns to caller c.
ScrapeReturned(c, ret) ==
    [scraper EXCEPT !.call[c].pc = "returned", !.call[c].ret = ret]

\* The caller's statement drove session d.
Drove(s, c, d) == [s EXCEPT !.call[c].used = @ \cup {d}]

ScrapeInit ==
    /\ AppInit("off")
    /\ mail = MailIdle
    /\ ai = AIWith(0)
    /\ flt = FilterWith(FALSE, <<>>)
    /\ li = SearchIdle
    /\ BrowsingIdle

\* app.py:79, email_scraper.py:439-446  campaign c calls find_emails with
\* the domain app.py:59-63 has already cleaned: clean_domain keeps it.
FindEmailsCall(c) ==
    /\ scraper.call[c].pc = "idle"
    /\ scraper' = [scraper EXCEPT !.call[c].pc = "start"]
    /\ UNCHANGED <<notBrowsing, conn, ext>>

\* email_scraper.py:22-54,62-64  start_browser: webdriver.Chrome raises
\* (return False, find_emails returns [] at 449), or the new session is
\* assigned to self.driver, whatever self.driver referred to.
StartBrowser(c) ==
    /\ scraper.call[c].pc = "start"
    /\ \E started \in BOOLEAN :
         scraper' =
           IF started
           THEN [scraper EXCEPT
                   !.driver = c,
                   !.sessions[c] = "open",
                   !.call[c].pc = "hide",
                   !.call[c].replaced =
                       IF Open(scraper.driver)
                       THEN @ \cup {scraper.driver} ELSE @]
           ELSE ScrapeReturned(c, "empty")
    /\ UNCHANGED <<notBrowsing, conn, ext>>

\* email_scraper.py:57-64  self.driver.execute_script(...): on a session
\* that was quit it raises, start_browser returns False and find_emails [].
HideAutomation(c) ==
    /\ scraper.call[c].pc = "hide"
    /\ scraper' =
         IF Open(scraper.driver)
         THEN Drove([scraper EXCEPT !.call[c].pc = "search"], c,
                    scraper.driver)
         ELSE ScrapeReturned(c, "empty")
    /\ UNCHANGED <<notBrowsing, conn, ext>>

\* email_scraper.py:171-265, 452-456  the search phase of
\* search_prospeo_emails: self.driver is set, its exceptions are caught at
\* 263 (return [], and find_emails returns [] leaving the browser open).
SearchPhase(c) ==
    /\ scraper.call[c].pc = "search"
    /\ \E loaded \in BOOLEAN :
         scraper' =
           IF ~Open(scraper.driver)
           THEN ScrapeReturned(c, "empty")
           ELSE IF loaded
           THEN Drove([scraper EXCEPT !.call[c].pc = "scrape"], c,
                      scraper.driver)
           ELSE Drove(ScrapeReturned(c, "empty"), c, scraper.driver)
    /\ UNCHANGED <<notBrowsing, conn, ext>>

\* email_scraper.py:267-426, 454-460, 478-481  the scraping phase: an
\* exception of self.driver.current_url reaches find_emails' handler, which
\* closes the browser; no address returns [] leaving the browser open;
\* addresses are filtered and the browser is closed.
ScrapePhase(c) ==
    /\ scraper.call[c].pc = "scrape"
    /\ \E found \in BOOLEAN :
         scraper' =
           IF ~Open(scraper.driver)
           THEN [scraper EXCEPT !.call[c].pc = "close",
                                !.call[c].ret = "empty"]
           ELSE IF found
           THEN Drove([scraper EXCEPT !.call[c].pc = "close",
                                      !.call[c].ret = "real_people"],
                      c, scraper.driver)
           ELSE Drove(ScrapeReturned(c, "empty"), c, scraper.driver)
    /\ UNCHANGED <<notBrowsing, conn, ext>>

\* email_scraper.py:474-476, 481-491  close_browser: self.driver.quit() on
\* whatever self.driver refers to (quit of a session already quit changes
\* nothing; its exception is caught at 490); self.driver is not reset.
CloseBrowser(c) ==
    /\ scraper.call[c].pc = "close"
    /\ scraper' =
         IF Open(scraper.driver)
         THEN [scraper EXCEPT
                 !.sessions[scraper.driver] = "closed",
                 !.call[c].quit = @ \cup {scraper.driver},
                 !.call[c].pc = "returned"]
         ELSE [scraper EXCEPT !.call[c].pc = "returned"]
    /\ UNCHANGED <<notBrowsing, conn, ext>>

ScrapeNext ==
    \E c \in 1..MaxScrapers :
        \/ FindEmailsCall(c)
        \/ StartBrowser(c)
        \/ HideAutomation(c)
        \/ SearchPhase(c)
        \/ ScrapePhase(c)
        \/ CloseBrowser(c)

ScrapeSpec == ScrapeInit /\ [][ScrapeNext]_vars

\* =================================================================
\* LinkedInService.search_and_connect (ConnectSpec)
\* =================================================================

\* Search results on the page in the longest result list.
MaxResults == 4
\* linkedin_service.py:787-796  the person_name of the call
JohnSmith == <<"J", "o", "h", "n", " ", "S", "m", "i", "t", "h">>

\* linkedin_service.py:834-849  the result containers of the page: the name
\* each displays, and whether its profile link and its name element are
\* there.
ResultLists ==
    LET names == {JohnSmith, <<"J", "a", "n", "e", " ", "D", "o", "e">>}
        result == [name : names, elements : BOOLEAN]
    IN  UNION {[1..n -> result] : n \in 0..MaxResults}

\* linkedin_service.py:796, 823  search_and_connect(search_query,
\* person_name, email) is called on a page that shows some results.
ConnectInit ==
    /\ AppInit("off")
    /\ mail = MailIdle
    /\ ai = AIWith(0)
    /\ flt = FilterWith(FALSE, <<>>)
    /\ li = SearchIdle
    /\ scraper = ScraperIdle
    /\ ext = ExtractIdle
    /\ \E results \in ResultLists :
         conn = [ConnectIdle EXCEPT !.pc = "call",
                                    !.person_name = JohnSmith,
                                    !.results = results]

\* linkedin_service.py:825-838, 872-874  the search page is opened: the
\* driver raises (return None), there is no result (return None), or the
\* loop over results[:3] begins.
ConnectOpen ==
    /\ conn.pc = "call"
    /\ \E raised \in BOOLEAN :
         conn' = IF raised \/ conn.results = <<>>
                 THEN [conn EXCEPT !.pc = "returned",
                                   !.ret = [kind |-> "None"]]
                 ELSE [conn EXCEPT !.pc = "loop", !.k = 1]
    /\ UNCHANGED <<notBrowsing, scraper, ext>>

\* linkedin_service.py:841-870  one iteration of the loop, or its end. An
\* element that is missing, or a click that fails, raises: "continue".
\* Otherwise the profile link is clicked, attempt_connection is called (it
\* returns True or False and never raises) and the result is returned;
\* result_name is printed and returned, and compared with nothing.
ConnectResult ==
    /\ conn.pc = "loop"
    /\ IF conn.k > Min(3, Len(conn.results))
       THEN conn' = [conn EXCEPT !.pc = "returned",
                                 !.ret = [kind |-> "None"]]
       ELSE \E clicks \in BOOLEAN, connected \in BOOLEAN :
              conn' =
                IF ~conn.results[conn.k].elements \/ ~clicks
                THEN [conn EXCEPT !.k = @ + 1]
                ELSE [conn EXCEPT
                        !.pc = "returned",
                        !.clicked = Append(@, conn.k),
                        !.attempted = Append(@, conn.k),
                        !.ret = [kind |-> "dict",
                                 name |-> conn.results[conn.k].name,
                                 connected |-> connected]]
    /\ UNCHANGED <<notBrowsing, scraper, ext>>

ConnectSpec == ConnectInit /\ [][ConnectOpen \/ ConnectResult]_vars

\* =================================================================
\* LinkedInService.extract_name_from_email (ExtractSpec)
\* =================================================================

\* Parts in the longest local part handed to extract_name_from_email.
MaxParts == 3

RECURSIVE JoinWith(_, _)
JoinWith(parts, joiner) ==
    IF parts = <<>> THEN <<>>
    ELSE IF Len(parts) = 1 THEN Head(parts)
    ELSE Head(parts) \o joiner \o JoinWith(Tail(parts), joiner)

\* linkedin_service.py:32  the local parts: up to MaxParts parts, joined.
LocalParts ==
    LET parts == { <<"j">>, <<"j", "o">>, <<"j", "o", "h", "n">>,
                   <<"S", "m", "i", "t", "h">>, <<"a", "1">>, <<"q">> }
        joiners == {<<".">>, <<"_">>, <<"-">>, <<>>}
    IN  {JoinWith(list, joiner) :
            list \in UNION {[1..n -> parts] : n \in 0..MaxParts},
            joiner \in joiners}

\* str.isalpha for one character, and for a string
IsLetter(c) ==
    \E k \in 1..Len(LowerLetters) : c = LowerLetters[k] \/ c = UpperLetters[k]
IsAlpha(str) == str # <<>> /\ \A k \in 1..Len(str) : IsLetter(str[k])

\* str.title: a letter that follows no letter is upper-cased, the other
\* letters are lower-cased.
Title(str) ==
    [k \in 1..Len(str) |->
        IF k = 1 \/ ~IsLetter(str[k - 1])
        THEN UpperChar(str[k]) ELSE LowerChar(str[k])]

\* linkedin_service.py:35-46  re.match(pattern, local_part.lower()) for the
\* pattern of n groups "[a-z]+" separated by sep: the groups, <<>> for no
\* match.
Groups(lowered, sep, n) ==
    LET pieces == Split(lowered, sep)
        word(str) == IsAlpha(str) /\ Lower(str) = str
    IN  IF Len(pieces) = n /\ \A k \in 1..n : word(pieces[k])
        THEN pieces ELSE <<>>

\* linkedin_service.py:50,54  "if len(first) >= 2 and len(last) >= 2"
\* The slip of "> 2" for ">= 2".
LongEnoughOver2(first, last) == Len(first) > 2 /\ Len(last) > 2

LongEnough(first, last) == Len(first) >= 2 /\ Len(last) >= 2

\* linkedin_service.py:64-67  first_names
first_names ==
    <<<<"j", "a", "m", "e", "s">>,
      <<"j", "o", "h", "n">>,
      <<"r", "o", "b", "e", "r", "t">>,
      <<"m", "i", "c", "h", "a", "e", "l">>,
      <<"w", "i", "l", "l", "i", "a", "m">>,
      <<"d", "a", "v", "i", "d">>,
      <<"r", "i", "c", "h", "a", "r", "d">>,
      <<"t", "h", "o", "m", "a", "s">>,
      <<"c", "h", "a", "r", "l", "e", "s">>,
      <<"c", "h", "r", "i", "s", "t", "o", "p", "h", "e", "r">>,
      <<"d", "a", "n", "i", "e", "l">>,
      <<"m", "a", "t", "t", "h", "e", "w">>,
      <<"a", "n", "t", "h", "o", "n", "y">>,
      <<"m", "a", "r", "k">>,
      <<"d", "o", "n", "a", "l", "d">>,
      <<"s", "t", "e", "v", "e", "n">>,
      <<"p", "a", "u", "l">>,
      <<"a", "n", "d", "r", "e", "w">>,
      <<"j", "o", "s", "h", "u", "a">>,
      <<"k", "e", "n", "n", "e", "t", "h">>,
      <<"m", "a", "r", "y">>,
      <<"p", "a", "t", "r", "i", "c", "i", "a">>,
      <<"j", "e", "n", "n", "i", "f", "e", "r">>,
      <<"l", "i", "n", "d", "a">>,
      <<"e", "l", "i", "z", "a", "b", "e", "t", "h">>,
      <<"b", "a", "r", "b", "a", "r", "a">>,
      <<"s", "u", "s", "a", "n">>,
      <<"j", "e", "s", "s", "i", "c", "a">>,
      <<"s", "a", "r", "a", "h">>,
      <<"k", "a", "r", "e", "n">>,
      <<"n", "a", "n", "c", "y">>,
      <<"l", "i", "s", "a">>,
      <<"b", "e", "t", "t", "y">>,
      <<"h", "e", "l", "e", "n">>,
      <<"s", "a", "n", "d", "r", "a">>,
      <<"d", "o", "n", "n", "a">>,
      <<"c", "a", "r", "o", "l">>,
      <<"r", "u", "t", "h">>,
      <<"s", "h", "a", "r", "o", "n">>,
      <<"m", "i", "c", "h", "e", "l", "l", "e">>>>

\* linkedin_service.py:80,84  return None
NoName == [kind |-> "None", text |-> <<>>]

\* linkedin_service.py:28-84  extract_name_from_email. A dict has no split:
\* the AttributeError is caught at 82 and None is returned. The patterns are
\* tried in their order (first.m.last matches only what first.middle.last
\* matches); a match whose first or last is too short returns nothing and
\* the loop goes on. A local part of letters, 4 or longer, is split after
\* the first of first_names it starts with, or kept as one name.
li_extract_name_from_email(email) ==
    IF email.kind # "str" THEN NoName
    ELSE
    LET local_part == Split(email.text, "@")[1]
        lowered == Lower(local_part)
        named(first, last) ==
            [kind |-> "name", text |-> Title(first) \o <<" ">> \o Title(last)]
        dot == Groups(lowered, ".", 2)
        three == Groups(lowered, ".", 3)
        under == Groups(lowered, "_", 2)
        dash == Groups(lowered, "-", 2)
        starts(k) == /\ StartsWith(lowered, first_names[k])
                     /\ Len(local_part) > Len(first_names[k]) + 2
    IN  IF dot # <<>> /\ LongEnough(dot[1], dot[2])
        THEN named(dot[1], dot[2])
        ELSE IF three # <<>> /\ LongEnough(three[1], three[3])
        THEN named(three[1], three[3])
        ELSE IF under # <<>> /\ LongEnough(under[1], under[2])
        THEN named(under[1], under[2])
        ELSE IF dash # <<>> /\ LongEnough(dash[1], dash[2])
        THEN named(dash[1], dash[2])
        ELSE IF Len(local_part) >= 4 /\ IsAlpha(local_part)
        THEN IF \E k \in 1..Len(first_names) : starts(k)
             THEN LET k == CHOOSE k \in 1..Len(first_names) :
                               starts(k) /\ \A h \in 1..(k - 1) : ~starts(h)
                      fname == first_names[k]
                  IN  named(fname, SubSeq(local_part, Len(fname) + 1,
                                          Len(local_part)))
             ELSE [kind |-> "name", text |-> Title(local_part)]
        ELSE NoName

\* linkedin_service.py:782-787  an element of email_list: an address string,
\* or an {email, name} dict as find_emails returns them (email_filter.py:
\* 202-206).
ExtractInit ==
    /\ AppInit("off")
    /\ mail = MailIdle
    /\ ai = AIWith(0)
    /\ flt = FilterWith(FALSE, <<>>)
    /\ li = SearchIdle
    /\ scraper = ScraperIdle
    /\ conn = ConnectIdle
    /\ \E kind \in {"str", "dict"}, local_part \in LocalParts :
         ext = [ExtractIdle EXCEPT
                  !.pc = "call",
                  !.email = [kind |-> kind, text |-> local_part \o MailDomain]]

\* linkedin_service.py:787  person_name = self.extract_name_from_email(email)
ExtractName ==
    /\ ext.pc = "call"
    /\ ext' = [ext EXCEPT !.pc = "extracted",
                          !.ret = li_extract_name_from_email(ext.email)]
    /\ UNCHANGED <<notBrowsing, scraper, conn>>

\* linkedin_service.py:788-796  "if not person_name: continue", else the
\* search for the name.
SkipOrSearch ==
    /\ ext.pc = "extracted"
    /\ ext' = IF ext.ret.kind = "None" \/ ext.ret.text = <<>>
              THEN [ext EXCEPT !.pc = "continued", !.skipped = TRUE]
              ELSE [ext EXCEPT !.pc = "searching"]
    /\ UNCHANGED <<notBrowsing, scraper, conn>>

ExtractSpec == ExtractInit /\ [][ExtractName \/ SkipOrSearch]_vars

\* =================================================================
\* Claims about the orchestrator (Spec, FairSpec)
\* =================================================================

\* The requests launch_campaign accepted so far.
Accepted == {r \in Requests : req[r].pc \in {"started", "responded"}}

\* The addresses emails[:target_email_count], by position, in list order.
Targeted(t) ==
    [j \in 1..SliceLen(t.emails, t.data.target_email_count) |-> j]

\* C1: in a campaign with email outreach enabled whose discovery returned at
\* least one address, once the email stage is over send_email has been
\* invoked exactly once for each of the first target_email_count addresses,
\* in list order.
C1_SendsToEachTarget ==
    \A r \in Requests :
        (/\ thr[r].pc \in {"linkedin", "final"}
         /\ thr[r].data.email_enabled
         /\ thr[r].emails >= 1)
        => thr[r].send_log = Targeted(thr[r])

\* C2: exactly the accepted launches have a campaign thread, each thread
\* has appended at most one record of its own, the number of records never
\* exceeds the number of accepted launches, records are never removed, and
\* every accepted launch's record eventually exists.
C2_RecordsWithinLaunches ==
    /\ \A r \in Requests : (r \in Accepted) <=> (thr[r].pc # "none")
    /\ Len(campaign_results) = Cardinality({r \in Requests : thr[r].ridx > 0})
    /\ \A r, q \in Requests :
           (r # q /\ thr[r].ridx > 0) => thr[r].ridx # thr[q].ridx
    /\ Len(campaign_results) <= Cardinality(Accepted)

C2_RecordsKept ==
    /\ Len(campaign_results') >= Len(campaign_results)
    /\ \A k \in 1..Len(campaign_results) :
           campaign_results'[k].id = campaign_results[k].id

C2_OneRecordPerLaunch ==
    /\ []C2_RecordsWithinLaunches
    /\ [][C2_RecordsKept]_vars
    /\ <>[](Len(campaign_results) = Cardinality(Accepted))

C2_Witness ==
    /\ Cardinality(Accepted) = MaxLaunch
    /\ Len(campaign_results) = MaxLaunch
    /\ \A r \in Requests : thr[r].pc = "done"

\* C3: the campaign_id in the response of an accepted launch is the id of
\* the record of the campaign that this launch started.
C3_ResponseNamesOwnCampaign ==
    \A r \in Requests :
        (req[r].pc = "responded" /\ thr[r].ridx > 0)
        => req[r].campaign_id = Result(r).id

\* C4: no two records of campaign_results have the same id.
C4_UniqueIds ==
    \A j, k \in 1..Len(campaign_results) :
        j # k => campaign_results[j].id # campaign_results[k].id

\* C10: a campaign with linkedin_enabled and without email_enabled runs the
\* LinkedIn search on the discovered contacts and records no LinkedIn error.
C10_LinkedInWithoutEmail ==
    \A r \in Requests :
        (/\ thr[r].pc = "final"
         /\ thr[r].data.linkedin_enabled
         /\ ~thr[r].data.email_enabled)
        => /\ thr[r].emails_bound
           /\ \A k \in 1..Len(Result(r).errors) :
                  Result(r).errors[k] # "LinkedIn error"

\* The errors recorded in a record, as a set.
Errors(rec) == {rec.errors[k] : k \in 1..Len(rec.errors)}

\* C11: when a campaign performs the final status update, the status it
\* stores is "completed" if and only if emails_sent > 0 or
\* linkedin_connections_sent > 0 (0 when the key is absent), and "failed"
\* otherwise, whatever errors were recorded.
C11_FinalStatusRule ==
    [][\A r \in Requests :
          (thr[r].pc = "final" /\ thr'[r].pc = "done") =>
              LET rec == campaign_results'[thr[r].ridx]
                  reached == \/ rec.emails_sent > 0
                             \/ (/\ rec.linkedin_connections_sent # NoKey
                                 /\ rec.linkedin_connections_sent > 0)
              IN  /\ reached => rec.status = "completed"
                  /\ ~reached => rec.status = "failed"]_vars

\* A campaign that completed although its email stage recorded an error.
C11_Witness ==
    \E r \in Requests :
        /\ thr[r].pc = "done"
        /\ Result(r).status = "completed"
        /\ "Email error" \in Errors(Result(r))

\* C12: when a campaign stores its final status, its record's emails_found,
\* emails_sent and linkedin_sent are the number of contacts found, the number
\* of emails send_email reported as sent, and the number of connection
\* requests the campaign sent.
C12_CountersTellWhatHappened ==
    [][\A r \in Requests :
          (thr[r].pc = "final" /\ thr'[r].pc = "done") =>
              LET rec == campaign_results'[thr[r].ridx]
              IN  /\ rec.emails_found = thr[r].emails
                  /\ rec.emails_sent = thr[r].emails_sent
                  /\ rec.linkedin_sent = thr[r].li_sent]_vars

\* C13: eventually, and from then on, every campaign that was launched has
\* returned and its record's status is "completed" or "failed" (there are
\* finitely many launches, and a campaign that has ended stays ended).
C13_EveryCampaignEnds ==
    <>[](\A r \in Requests :
            thr[r].pc # "none" =>
                /\ thr[r].pc = "done"
                /\ Result(r).status \in {"completed", "failed"})

\* Every request was accepted and every campaign has ended.
C13_Witness ==
    \A r \in Requests :
        /\ req[r].pc = "responded"
        /\ thr[r].pc = "done"
        /\ Result(r).status = "failed"

\* C14: a record is appended with status "running"; its status changes only
\* from "running", and only to "completed" or "failed" (so at most once).
C14_StatusSteps ==
    [][/\ Len(campaign_results') >= Len(campaign_results)
       /\ \A k \in 1..Len(campaign_results) :
              campaign_results'[k].status # campaign_results[k].status
              => /\ campaign_results[k].status = "running"
                 /\ campaign_results'[k].status \in {"completed", "failed"}
       /\ \A k \in (Len(campaign_results) + 1)..Len(campaign_results') :
              campaign_results'[k].status = "running"]_vars

\* A campaign ran both stages, recorded a LinkedIn search and failed.
C14_Witness ==
    \E r \in Requests :
        /\ thr[r].pc = "done"
        /\ Result(r).status = "failed"
        /\ Result(r).linkedin_people_found # NoKey
        /\ Result(r).emails_found > 0

C16_InvalidDomainEndsRun ==
    /\ [][\A r \in Requests :
             LET d == thr[r].data.domain
                 nodot == /\ d # <<"(number)">>
                          /\ \A k \in 1..Len(d) :
                                 d[k] \in {".", "www."} =>
                                     \/ d[k] = "www."
                                     \/ \E j \in 1..(k - 1) : d[j] = "/"
             IN  (thr[r].pc = "prepare" /\ thr'[r] # thr[r] /\ nodot) =>
                     /\ thr'[r].pc = "done"
                     /\ thr'[r].calls = {}
                     /\ campaign_results'[thr[r].ridx].status = "failed"
                     /\ "Invalid domain"
                            \in Errors(campaign_results'[thr[r].ridx])]_vars
    /\ [](\A r \in Requests :
             (thr[r].ridx > 0 /\ "Invalid domain" \in Errors(Result(r))) =>
                 /\ thr[r].pc = "done"
                 /\ thr[r].calls = {}
                 /\ Result(r).status = "failed")

\* A single campaign has ended at the domain check, having called nothing.
C16_Witness ==
    \E r \in Requests :
        /\ thr[r].pc = "done"
        /\ thr[r].calls = {}
        /\ Result(r).errors = <<"Invalid domain">>
        /\ profile = "single"

\* C17: once the email stage is over, an exception raised inside it is
\* recorded as an "Email error" in the record's errors, and the LinkedIn
\* stage (when enabled) still runs its search; a step of the LinkedIn stage
\* that records a "LinkedIn error" leaves emails_found and emails_sent as
\* they were.
C17_StageErrorsRecorded ==
    /\ [](\A r \in Requests :
             /\ (thr[r].pc \in {"linkedin", "final"} /\ thr[r].email_raised)
                  => "Email error" \in Errors(Result(r))
             /\ (/\ thr[r].pc = "final"
                 /\ thr[r].email_raised
                 /\ thr[r].data.linkedin_enabled)
                  => thr[r].li_called)
    /\ [][\A r \in Requests :
             (/\ thr[r].pc = "linkedin"
              /\ thr'[r].pc = "final"
              /\ "LinkedIn error" \in Errors(campaign_results'[thr[r].ridx])) =>
                 /\ campaign_results'[thr[r].ridx].emails_found
                        = Result(r).emails_found
                 /\ campaign_results'[thr[r].ridx].emails_sent
                        = Result(r).emails_sent]_vars

\* C18: in every record 0 <= emails_sent <= emails_found, and while the
\* campaign's target_email_count is known and not negative, emails_sent is
\* at most the target.
C18_SentWithinFoundAndTarget ==
    /\ \A k \in 1..Len(campaign_results) :
           /\ 0 <= campaign_results[k].emails_sent
           /\ campaign_results[k].emails_sent <= campaign_results[k].emails_found
    /\ \A r \in Requests :
           (/\ thr[r].ridx > 0
            /\ thr[r].pc # "done"
            /\ thr[r].data.target_email_count >= 0)
           => Result(r).emails_sent <= thr[r].data.target_email_count

\* The send loop went over emails[:1] of two contacts and stored its count.
C18_Witness ==
    \E r \in Requests :
        /\ thr[r].pc = "linkedin"
        /\ thr[r].emails = MaxFound
        /\ thr[r].data.target_email_count = 1
        /\ thr[r].i = 2

\* =================================================================
\* Claims about search_people_by_emails (SearchSpec)
\* =================================================================

\* C19: the search examines at most the first 10 addresses of its list and
\* examines none once max_connections requests were sent; its list never has
\* more than 10 entries nor more than max_connections entries with
\* connected = true; and every record has linkedin_connections_sent <= 5 and
\* linkedin_connections_sent <= linkedin_people_found <= 10.
C19_SearchWithinLimits ==
    /\ [](/\ li.examined <= 10
          /\ li.examined <= li.n
          /\ li.people_found.entries <= 10
          /\ li.people_found.connected <= li.max_connections
          /\ \A k \in 1..Len(campaign_results) :
                 LET rec == campaign_results[k]
                 IN  rec.linkedin_connections_sent # NoKey =>
                         /\ rec.linkedin_connections_sent <= 5
                         /\ rec.linkedin_connections_sent
                                <= rec.linkedin_people_found
                         /\ rec.linkedin_people_found <= 10)
    /\ [][li'.examined > li.examined =>
              /\ li.connections_sent < li.max_connections
              /\ li.examined < 10]_vars

\* A search over eleven addresses stopped after the fifth, with five
\* requests sent.
C19_Witness ==
    /\ li.pc = "returned"
    /\ li.n = 11
    /\ li.examined = 5
    /\ li.people_found.connected = 5
    /\ li.max_connections = 5

\* =================================================================
\* Claims about send_email (SendSpec)
\* =================================================================

\* The names of the first n configured providers, in list order.
ProviderNames(m, n) == [k \in 1..n |-> m.email_providers[k].name]

\* C5: the attempts go through the configured providers (Gmail, Gmail_TLS,
\* Outlook, those with credentials) strictly in list order, a provider is
\* attempted only after every earlier one failed, and nothing is attempted
\* after a success.
C5_ProvidersInOrder ==
    /\ \E accounts \in SUBSET {"GMAIL", "OUTLOOK"} :
           /\ mail.email_providers = ConfiguredProviders(accounts)
           /\ \A k \in 1..Len(AllProviders) :
                  AllProviders[k].account \in accounts
                  <=> \E j \in 1..Len(mail.email_providers) :
                          mail.email_providers[j] = AllProviders[k]
    /\ Len(mail.attempts) <= Len(mail.email_providers)
    /\ [k \in 1..Len(mail.attempts) |-> mail.attempts[k].provider]
           = ProviderNames(mail, Len(mail.attempts))
    /\ \A k \in 1..Len(mail.attempts) :
           k < Len(mail.attempts) => mail.attempts[k].outcome = "failed"
    /\ \A k \in 1..Len(mail.attempts) :
           mail.attempts[k].outcome = "ok" => mail.pc = "returned"

C5_Witness ==
    /\ mail.pc = "returned"
    /\ Len(mail.attempts) = 2
    /\ mail.attempts[1].outcome = "failed"
    /\ mail.attempts[2].outcome = "ok"
    /\ Len(mail.email_providers) = 3

\* C6: within one send_email call the message is handed over to an SMTP
\* server (send_message succeeds) at most once.
C6_HandedOverAtMostOnce ==
    Cardinality({k \in 1..Len(mail.attempts) : mail.attempts[k].handed}) <= 1

\* C7: send_email returns True exactly when some attempt completed without
\* error, returns False without connecting when no provider is configured,
\* returns False when every configured provider failed, and never lets a
\* provider's exception out.
C7_ReturnValue ==
    /\ mail.pc # "raised"
    /\ mail.pc = "returned" =>
         /\ mail.result \in {"True", "False"}
         /\ mail.result = "True"
              <=> \E k \in 1..Len(mail.attempts) : mail.attempts[k].outcome = "ok"
         /\ mail.email_providers = <<>> =>
              mail.result = "False" /\ mail.connections = 0
         /\ mail.result = "False" =>
              /\ Len(mail.attempts) = Len(mail.email_providers)
              /\ \A k \in 1..Len(mail.attempts) :
                     mail.attempts[k].outcome = "failed"
    /\ mail.pc # "returned" => mail.result = "none"

C7_Witness ==
    /\ mail.pc = "returned"
    /\ mail.result = "False"
    /\ Len(mail.attempts) = 3
    /\ mail.connections = 3

\* =================================================================
\* Claims about generate_personalized_paragraph (AISpec)
\* =================================================================

\* C8: the call returns a predefined template when no model is initialised,
\* when resume_content or job_description is empty, or when every key's
\* attempt raised, returned no text or returned a text of 200 characters or
\* fewer or without the name; otherwise it returns the stripped text of the
\* first attempt that passes. A passing attempt ends the call at once. The
\* call never raises and never returns an empty message.
C8_TemplateOrFirstGoodText ==
    \A c \in Callers :
        LET cl == ai.call[c]
            guarded == ai.models = 0 \/ cl.resume_empty \/ cl.job_empty
        IN  /\ cl.pc \in {"idle", "attempt", "switch_read", "switch_write",
                          "returned"}
            /\ cl.pc \in {"attempt", "switch_read", "switch_write"}
                 => ~guarded /\ ~cl.good_seen
            /\ cl.pc = "returned" =>
                 /\ TextLen(cl.ret.text) > 0
                 /\ guarded => cl.ret.kind = "template" /\ cl.tried = <<>>
                 /\ (~guarded /\ ~cl.good_seen) =>
                      /\ cl.ret.kind = "template"
                      /\ Len(cl.tried) = ai.models
                 /\ (~guarded /\ cl.good_seen) =>
                      /\ cl.ret.kind = "ai"
                      /\ cl.ret.text = Strip(cl.passed)
                      /\ cl.ret.text.core > QualityMinLen
                      /\ cl.ret.text.name
                      /\ cl.ret.text.lead = 0 /\ cl.ret.text.trail = 0
                 /\ cl.ret.kind = "template" =>
                      \E k \in 1..Len(Templates) : cl.ret.text = Templates[k]

\* A call whose first key failed and whose second key's text passed.
C8_Witness ==
    \E c \in Callers :
        /\ ai.call[c].pc = "returned"
        /\ ai.call[c].ret.kind = "ai"
        /\ Len(ai.call[c].tried) = 2
        /\ ai.call[c].passed.lead > 0

\* C20: within one call no key is tried twice, and at most len(models)
\* generation requests are made, also while another thread is calling.
C20_EachKeyAtMostOnce ==
    \A c \in Callers :
        LET tried == ai.call[c].tried
        IN  /\ Len(tried) <= ai.models
            /\ \A j, k \in 1..Len(tried) : j # k => tried[j] # tried[k]

\* =================================================================
\* Claims about filter_emails (FilterSpec)
\* =================================================================

\* The addresses of a list of emails, and of a real_people bucket.
Elements(str) == {str[k] : k \in 1..Len(str)}
BucketEmails(real_people) == {real_people[k].email : k \in 1..Len(real_people)}

\* C9: when filter_emails has returned, every input address is in exactly
\* one of real_people and support_emails, and neither bucket holds an
\* address that was not in the input.
C9_Partition ==
    flt.pc = "returned" =>
        LET real == BucketEmails(flt.real_people)
            support == Elements(flt.support_emails)
        IN  /\ \A e \in Elements(flt.emails) : (e \in real) # (e \in support)
            /\ (real \cup support) \subseteq Elements(flt.emails)

\* C21: when the rules classified the emails, support_emails holds, in input
\* order, exactly the addresses whose lower-cased local part is one of the
\* generic words or has neither "." nor "_" and at most 3 characters;
\* real_people holds all the others, in input order, each with the name
\* _extract_name_from_email infers from it ("John Smith" for john.smith).
C21_FallbackRule ==
    (flt.pc = "returned" /\ flt.path = "fallback") =>
        LET local(e) == Split(Lower(e), "@")[1]
            generic(e) ==
                \/ local(e) \in support_patterns
                \/ (/\ \A k \in 1..Len(local(e)) : local(e)[k] \notin {".", "_"}
                    /\ Len(local(e)) <= 3)
            person(e) == ~generic(e)
        IN  /\ flt.support_emails = SelectSeq(flt.emails, generic)
            /\ [k \in 1..Len(flt.real_people) |-> flt.real_people[k].email]
                   = SelectSeq(flt.emails, person)
            /\ \A k \in 1..Len(flt.real_people) :
                   LET entry == flt.real_people[k]
                   IN  /\ entry.name = extract_name_from_email(entry.email)
                       /\ local(entry.email)
                              = <<"j", "o", "h", "n", ".", "s", "m", "i", "t", "h">>
                          => entry.name
                              = <<"J", "o", "h", "n", " ", "S", "m", "i", "t", "h">>

\* The rules put IT@ into support_emails and john.smith@ into real_people.
C21_Witness ==
    /\ flt.pc = "returned"
    /\ flt.path = "fallback"
    /\ Len(flt.emails) = 2
    /\ Len(flt.support_emails) = 1
    /\ flt.support_emails[1] = <<"I", "T">> \o MailDomain
    /\ Len(flt.real_people) = 1
    /\ flt.real_people[1].name = <<"J", "o", "h", "n", " ", "S", "m", "i", "t", "h">>

\* =================================================================
\* Claims about EmailScraper.find_emails (ScrapeSpec)
\* =================================================================

\* C22: with campaigns running concurrently on the shared EmailScraper,
\* each campaign's find_emails drives and quits only the browser session
\* its own start_browser opened, and never replaces in self.driver, drives
\* or quits the open session of another campaign.
C22_OwnSessionOnly ==
    \A c \in 1..MaxScrapers :
        /\ scraper.call[c].used \subseteq {c}
        /\ scraper.call[c].quit \subseteq {c}
        /\ scraper.call[c].replaced = {}

\* =================================================================
\* Claims about LinkedInService.search_and_connect (ConnectSpec)
\* =================================================================

\* C23: search_and_connect clicks a profile, attempts a connection and
\* returns a found person only for a result, among the first 3, whose
\* displayed name matches person_name; a result with a different name is
\* never clicked or sent a request.
C23_OnlyMatchingResult ==
    LET matches(name) == Lower(name) = Lower(conn.person_name)
    IN  /\ \A j \in 1..Len(conn.clicked) :
             /\ conn.clicked[j] <= 3
             /\ matches(conn.results[conn.clicked[j]].name)
        /\ \A j \in 1..Len(conn.attempted) :
             matches(conn.results[conn.attempted[j]].name)
        /\ conn.ret.kind = "dict" => matches(conn.ret.name)

\* =================================================================
\* Claims about LinkedInService.extract_name_from_email (ExtractSpec)
\* =================================================================

\* A local part that is first.last, first_last, first-last or
\* first.middle.last, of letters, with first and last of 2 letters or more:
\* <<first, last>>; <<>> for any other local part.
NameForm(local_part) ==
    LET words(sep, n) ==
            LET pieces == Split(local_part, sep)
            IN  IF Len(pieces) = n /\ \A k \in 1..n : IsAlpha(pieces[k])
                THEN pieces ELSE <<>>
        fits(w) == w # <<>> /\ Len(w[1]) >= 2 /\ Len(w[Len(w)]) >= 2
        ends(w) == <<w[1], w[Len(w)]>>
    IN  IF fits(words(".", 2)) THEN ends(words(".", 2))
        ELSE IF fits(words("_", 2)) THEN ends(words("_", 2))
        ELSE IF fits(words("-", 2)) THEN ends(words("-", 2))
        ELSE IF fits(words(".", 3)) THEN ends(words(".", 3))
        ELSE <<>>

====
